---- MODULE Spec2Model ----
(***************************************************************************)
(* Model of the fasting bot (src/main.py): the per-user session store, the *)
(* job queue that holds the "fast end" jobs, and the callback-query         *)
(* handlers that start, refresh and end a fast.                             *)
(*                                                                          *)
(* Time is counted in minutes.  FastSession objects live in a heap          *)
(* (sessions) and are referred to by identity, as Python references are:    *)
(* the k-th session created for user u is sessions[u][k], and                *)
(* state["current"] and the entries of state["history"] of u hold such k.   *)
(* The Application is built without concurrent_updates, so update handlers  *)
(* run one after the other; a job callback is a task of its own and may run *)
(* while a handler is suspended in an await.                                *)
(*                                                                          *)
(* Spec has one user press the buttons while the clock also steps between   *)
(* due times; SpecUsers has two users share the bot.                         *)
(***************************************************************************)
EXTENDS Integers, Sequences, FiniteSets, TLC

\* ------------------------------------------------------------------ bounds
MaxSessions == 4        \* Spec: number of fasts started in one behaviour
MaxTicks == 2           \* Spec: the clock steps by quarter-hours up to the MaxTicks-th
MaxShared == 3          \* SpecUsers: number of fasts started in one behaviour

\* --------------------------------------------------------------- constants
None == -1              \* Python's None, for Optional ints and references
HistoryLimit == 3       \* "пазим само последните 3"

Users == {1, 2}         \* query.from_user.id
Solo == {1}             \* the user of Spec
ChatOf(u) == u + 10     \* query.message.chat.id of the user's private chat

DurationTokens ==
    {"fast_dur_18", "fast_dur_20", "fast_dur_24", "fast_dur_36", "fast_dur_test"}
\* the callback data the model sends to handle_fast_duration (pattern ^fast_dur_.*):
\* the test fast, and a token the bot does not know
StartTokens == {"fast_dur_test", "fast_dur_12"}

Hours(h) == h * 60
Minutes(m) == m

\* a token that is not recognised starts the test fast
duration_from_callback_lenient(data) ==
    CASE data = "fast_dur_18" -> Hours(18)
      [] data = "fast_dur_20" -> Hours(20)
      [] data = "fast_dur_24" -> Hours(24)
      [] data = "fast_dur_36" -> Hours(36)
      [] OTHER -> Minutes(15)

\* duration_from_callback: the timedelta of a token, None for an unknown one
duration_from_callback(data) ==
    CASE data = "fast_dur_18" -> Hours(18)
      [] data = "fast_dur_20" -> Hours(20)
      [] data = "fast_dur_24" -> Hours(24)
      [] data = "fast_dur_36" -> Hours(36)
      [] data = "fast_dur_test" -> Minutes(15)
      [] OTHER -> None

VARIABLES
    user_sessions,  \* user id -> [current, history]; only the users touched so far
    sessions,       \* heap of FastSession objects: user -> <<the sessions created for it>>
    jobs,           \* the job queue and the callbacks it has started: [name, data, due, st, sess]
    now,            \* datetime.now(timezone.utc), minutes
    awaiting,       \* the handle_fast_duration call suspended in send_message, if any
    pushed,         \* per user, every history.append so far: <<[sess, by], ...>>
    notified        \* per user, every "Your fast has completed." sent: <<[chat_id, sess], ...>>

vars == <<user_sessions, sessions, jobs, now, awaiting, pushed, notified>>

\* the number of sessions created so far
Started == LET n[S \in SUBSET Users] ==
                   IF S = {} THEN 0
                   ELSE LET u == CHOOSE x \in S : TRUE
                        IN  Len(sessions[u]) + n[S \ {u}]
           IN  n[Users]

\* ------------------------------------------------------------ session store
EmptyState == [current |-> None, history |-> <<>>]

\* get_user_state: the store after the lazy creation of user_id's entry
get_user_state(store, user_id) ==
    IF user_id \in DOMAIN store THEN store ELSE store @@ (user_id :> EmptyState)

\* what a reader of the store sees for a user
Current(u) == get_user_state(user_sessions, u)[u].current
History(u) == get_user_state(user_sessions, u)[u].history

\* the oldest n entries are kept instead of the newest
FirstN(h, n) == IF Len(h) > n THEN SubSeq(h, 1, n) ELSE h

\* history[:] = history[-3:]
LastN(h, n) == IF Len(h) > n THEN SubSeq(h, Len(h) - n + 1, Len(h)) ELSE h

\* the session is put in front of the history, and the newest entries are cut
push_history_in_front(h, s) ==
    LET appended == <<s>> \o h
    IN  IF Len(appended) > HistoryLimit THEN SubSeq(appended, 1, HistoryLimit) ELSE appended

\* the history is appended to and never cut back
push_history_untruncated(h, s) == Append(h, s)

\* history.append(s); if len(history) > 3: history[:] = history[-3:]
push_history(h, s) ==
    LET appended == Append(h, s)
    IN  IF Len(appended) > HistoryLimit THEN LastN(appended, HistoryLimit) ELSE appended

\* the slot is left holding the session it has just moved to history
move_to_history_keeps_current(state, current) ==
    [current |-> current, history |-> push_history(state.history, current)]

\* history.append(current); truncate; state["current"] = None
move_to_history(state, current) ==
    [current |-> None, history |-> push_history(state.history, current)]

\* the planned end of the new session is its start
NewSession_ending_at_start(t, duration) ==
    [start |-> t, end |-> t, duration |-> duration,
     completed |-> FALSE, status_message_id |-> None]

\* the session is created without its planned end
NewSession_without_end(t, duration) ==
    [start |-> t, end |-> None, duration |-> duration,
     completed |-> FALSE, status_message_id |-> None]

\* FastSession(start=now, end=end_time, duration=duration, completed=False,
\*             status_message_id=None)
NewSession(t, duration) ==
    [start |-> t, end |-> t + duration, duration |-> duration,
     completed |-> FALSE, status_message_id |-> None]

\* the session is moved to history without being marked
CompletedSession_unmarked(s) == s

\* current.completed = True
CompletedSession(s) == [s EXCEPT !.completed = TRUE]

\* the session is marked and its planned end is left as it was
EndedSession_keeping_end(s, t) == [s EXCEPT !.completed = TRUE]

\* current.completed = True; current.end = now; duration filled when it is None
EndedSession(s, t) ==
    [s EXCEPT !.completed = TRUE,
              !.end = t,
              !.duration = IF s.duration = None THEN t - s.start ELSE s.duration]

\* ---------------------------------------------------------------- job queue
\* the jobs of all users carry one name
job_name_shared(user_id) == 0

\* job_name = f"fast_end_{user_id}"
job_name(user_id) == user_id

\* job_queue.get_jobs_by_name(name): the jobs still waiting in the queue
get_jobs_by_name(js, name) == {j \in js : j.name = name /\ j.st = "scheduled"}

\* the jobs found by name are not removed
remove_jobs_by_name_skipped(js, name) == js

\* for job in get_jobs_by_name(name): job.schedule_removal()
remove_jobs_by_name(js, name) == js \ get_jobs_by_name(js, name)

\* the end-of-fast job is not put in the queue
run_once_unscheduled(js, t, when, user_id, chat_id, sess) == js

\* job_queue.run_once(notify_fast_end, when=duration, data=..., name=job_name);
\* sess remembers the session the job was scheduled with
run_once(js, t, when, user_id, chat_id, sess) ==
    js \cup {[name |-> job_name(user_id),
              data |-> [user_id |-> user_id, chat_id |-> chat_id],
              due |-> t + when, st |-> "scheduled", sess |-> sess]}

LogPush(u, s, by) == [pushed EXCEPT ![u] = Append(@, [sess |-> s, by |-> by])]

\* the completion notification is not sent
send_completion_dropped(log, user_id, chat_id, sess) == log

\* context.bot.send_message(chat_id=chat_id, text="Your fast has completed.");
\* sess remembers the session the callback completed
send_completion(log, user_id, chat_id, sess) ==
    [log EXCEPT ![user_id] = Append(@, [chat_id |-> chat_id, sess |-> sess])]

\* --------------------------------------------------------------------- Init
Init ==
    /\ user_sessions = <<>>
    /\ sessions = [u \in Users |-> <<>>]
    /\ jobs = {}
    /\ now = 0
    /\ awaiting = {}
    /\ pushed = [u \in Users |-> <<>>]
    /\ notified = [u \in Users |-> <<>>]

\* msg.message_id: the transport gives every status message an id of its own
message_id(user_id, session) == 100 * user_id + session

\* ----------------------------------------------------------------- handlers
\* handlers run one at a time: none starts while another is suspended
HandlerFree == awaiting = {}

\* handle_menu, menu_manage_fasts: reads the history; the user's entry is created
manage_fasts(u) ==
    /\ HandlerFree
    /\ user_sessions' = get_user_state(user_sessions, u)
    /\ UNCHANGED <<sessions, jobs, now, awaiting, pushed, notified>>

\* handle_fast_duration with a token duration_from_callback does not know:
\* the menu message is replaced by "Unknown duration option." and nothing else
unknown_duration(u, data) ==
    /\ HandlerFree
    /\ duration_from_callback(data) = None
    /\ UNCHANGED vars

\* handle_fast_duration up to the await of send_message: the old current goes to
\* history, the new session becomes current, the user's jobs are replaced
handle_fast_duration(u, data) ==
    /\ HandlerFree
    /\ duration_from_callback(data) # None
    /\ LET duration == duration_from_callback(data)
           store == get_user_state(user_sessions, u)
           current == store[u].current
           history == IF current # None THEN push_history(store[u].history, current)
                      ELSE store[u].history
           id == Len(sessions[u]) + 1
       IN  /\ sessions' = [sessions EXCEPT ![u] = Append(@, NewSession(now, duration))]
           /\ user_sessions' = [store EXCEPT ![u] = [current |-> id, history |-> history]]
           /\ jobs' = run_once(remove_jobs_by_name(jobs, job_name(u)),
                               now, duration, u, ChatOf(u), id)
           /\ pushed' = IF current # None THEN LogPush(u, current, "start") ELSE pushed
           /\ awaiting' = {[user_id |-> u, session |-> id]}
    /\ UNCHANGED <<now, notified>>

\* handle_fast_duration after send_message returned:
\* session.status_message_id = msg.message_id, then the menu message is redrawn
fast_duration_sent ==
    /\ \E a \in awaiting :
          sessions' = [sessions EXCEPT
              ![a.user_id][a.session].status_message_id = message_id(a.user_id, a.session)]
    /\ awaiting' = {}
    /\ UNCHANGED <<user_sessions, jobs, now, pushed, notified>>

\* a refresh that finishes a fast whose planned end has passed
fast_refresh_completing(u) ==
    /\ HandlerFree
    /\ LET store == get_user_state(user_sessions, u)
           current == store[u].current
       IN  IF current # None /\ sessions[u][current].end <= now
           THEN /\ sessions' = [sessions EXCEPT ![u][current] = CompletedSession(@)]
                /\ user_sessions' = [store EXCEPT ![u] = move_to_history(@, current)]
                /\ pushed' = LogPush(u, current, "timer")
           ELSE /\ user_sessions' = store
                /\ UNCHANGED <<sessions, pushed>>
    /\ UNCHANGED <<jobs, now, awaiting, notified>>

\* handle_status_actions, fast_refresh: the status text is computed from current
\* and the clock and written over the status message
fast_refresh(u) ==
    /\ HandlerFree
    /\ user_sessions' = get_user_state(user_sessions, u)
    /\ UNCHANGED <<sessions, jobs, now, awaiting, pushed, notified>>

\* handle_status_actions, fast_end_now without a current session
end_now_idle(u) ==
    /\ HandlerFree
    /\ get_user_state(user_sessions, u)[u].current = None
    /\ user_sessions' = get_user_state(user_sessions, u)
    /\ UNCHANGED <<sessions, jobs, now, awaiting, pushed, notified>>

\* handle_status_actions, fast_end_now with a current session
fast_end_now(u) ==
    /\ HandlerFree
    /\ LET store == get_user_state(user_sessions, u)
           current == store[u].current
       IN  /\ current # None
           /\ jobs' = remove_jobs_by_name(jobs, job_name(u))
           /\ sessions' = [sessions EXCEPT ![u][current] = EndedSession(@, now)]
           /\ user_sessions' = [store EXCEPT ![u] = move_to_history(@, current)]
           /\ pushed' = LogPush(u, current, "endnow")
    /\ UNCHANGED <<now, awaiting, notified>>

\* ------------------------------------------------------------ job callbacks
\* the scheduler takes a due job out of the queue and starts its callback task
job_due(j) ==
    /\ j.st = "scheduled"
    /\ now >= j.due
    /\ jobs' = (jobs \ {j}) \cup {[j EXCEPT !.st = "running"]}
    /\ UNCHANGED <<user_sessions, sessions, now, awaiting, pushed, notified>>

\* the callback sends its notification although the user has no current session
notify_no_current_notifying(j) ==
    /\ j.st = "running"
    /\ LET user_id == j.data.user_id
           store == get_user_state(user_sessions, user_id)
       IN  /\ store[user_id].current = None
           /\ user_sessions' = store
           /\ notified' = send_completion(notified, user_id, j.data.chat_id, None)
    /\ jobs' = jobs \ {j}
    /\ UNCHANGED <<sessions, now, awaiting, pushed>>

\* notify_fast_end when the user has no current session: return, nothing is sent
notify_no_current(j) ==
    /\ j.st = "running"
    /\ LET user_id == j.data.user_id
           store == get_user_state(user_sessions, user_id)
       IN  /\ store[user_id].current = None
           /\ user_sessions' = store
    /\ jobs' = jobs \ {j}
    /\ UNCHANGED <<sessions, now, awaiting, pushed, notified>>

\* notify_fast_end with a current session: complete it, move it to history and
\* send "Your fast has completed."
notify_fast_end(j) ==
    /\ j.st = "running"
    /\ LET user_id == j.data.user_id
           store == get_user_state(user_sessions, user_id)
           current == store[user_id].current
       IN  /\ current # None
           /\ sessions' = [sessions EXCEPT ![user_id][current] = CompletedSession(@)]
           /\ user_sessions' = [store EXCEPT ![user_id] = move_to_history(@, current)]
           /\ pushed' = LogPush(user_id, current, "timer")
           /\ notified' = send_completion(notified, user_id, j.data.chat_id, current)
    /\ jobs' = jobs \ {j}
    /\ UNCHANGED <<now, awaiting>>

\* -------------------------------------------------------------------- clock
\* a quarter of an hour passes
Tick ==
    /\ now < MaxTicks * Minutes(15)
    /\ now' = now + Minutes(15)
    /\ UNCHANGED <<user_sessions, sessions, jobs, awaiting, pushed, notified>>

\* time passes until a waiting job is due
AdvanceToDue ==
    /\ \E j \in jobs :
          /\ j.st = "scheduled"
          /\ j.due > now
          /\ now' = j.due
    /\ UNCHANGED <<user_sessions, sessions, jobs, awaiting, pushed, notified>>

\* an update of one of the users in U is handled; at most limit fasts are started
Update(U, limit) ==
    \/ \E u \in U : manage_fasts(u)
    \/ \E u \in U, data \in StartTokens : unknown_duration(u, data)
    \/ Started < limit /\ \E u \in U, data \in StartTokens : handle_fast_duration(u, data)
    \/ fast_duration_sent
    \/ \E u \in U : fast_refresh(u)
    \/ \E u \in U : end_now_idle(u)
    \/ \E u \in U : fast_end_now(u)

\* the scheduler: a due job is started, a started callback runs, or time passes
\* until a waiting job is due
Scheduler ==
    \/ \E j \in jobs : job_due(j)
    \/ \E j \in jobs : notify_no_current(j)
    \/ \E j \in jobs : notify_fast_end(j)
    \/ AdvanceToDue

Next ==
    \/ Update(Solo, MaxSessions)
    \/ Scheduler
    \/ Tick

Spec == Init /\ [][Next]_vars

NextUsers ==
    \/ Update(Users, MaxShared)
    \/ Scheduler

SpecUsers == Init /\ [][NextUsers]_vars

\* SpecUsers with a scheduler that lets time pass, starts the jobs that are due
\* and runs the callbacks it started
Dispatch == \E j \in jobs : job_due(j)
Callback == \E j \in jobs : notify_no_current(j) \/ notify_fast_end(j)

FairSpec == SpecUsers /\ WF_vars(AdvanceToDue) /\ WF_vars(Dispatch) /\ WF_vars(Callback)

\* ===================================================================== claims
Min(a, b) == IF a < b THEN a ELSE b

\* the sessions of a push log, in the order they were pushed
Sess(log) == [i \in 1..Len(log) |-> log[i].sess]

\* how session k of user u left the current slot: "start", "timer", "endnow",
\* or "none" while it has not
LeftBy(u, k) ==
    IF \E i \in 1..Len(pushed[u]) : pushed[u][i].sess = k
    THEN pushed[u][CHOOSE i \in 1..Len(pushed[u]) : pushed[u][i].sess = k].by
    ELSE "none"

\* the jobs of user u waiting in the queue
Live(u) == get_jobs_by_name(jobs, job_name(u))

\* a step in which handle_fast_duration created a session for u
Starts(u) == Len(sessions'[u]) = Len(sessions[u]) + 1

\* ---------------------------------------------------------------------- C1
\* C1: whenever a user's current slot stops holding a session (cleared or
\* replaced), that step appends exactly that session to the user's history;
\* nothing else is ever appended, and no session is appended twice.
C1_LeavesCurrentIntoHistoryOnce ==
    [][\A u \in Users :
         LET left == Current(u) # None /\ Current(u)' # Current(u)
         IN  /\ Sess(pushed'[u]) =
                   IF left THEN Append(Sess(pushed[u]), Current(u)) ELSE Sess(pushed[u])
             /\ left => /\ History(u)' # <<>>
                         /\ History(u)'[Len(History(u)')] = Current(u)
             /\ ~left => History(u)' = History(u)
             /\ \A i, k \in 1..Len(pushed'[u]) :
                   pushed'[u][i].sess = pushed'[u][k].sess => i = k]_vars

\* a session completed by the timer and another one ended by hand, both in history
C1_Witness ==
    \E u \in Users :
        /\ \E i \in 1..Len(pushed[u]) : pushed[u][i].by = "timer"
        /\ \E i \in 1..Len(pushed[u]) : pushed[u][i].by = "endnow"
        /\ \E i \in 1..Len(pushed[u]) : pushed[u][i].by = "start"

\* ---------------------------------------------------------------------- C2
\* the time at which session k of user u was ended by hand or replaced
LeftAt(u, k) ==
    IF LeftBy(u, k) = "endnow" THEN sessions[u][k].end ELSE sessions[u][k + 1].start

\* session j.sess was ended by EndNow or replaced by a Start before j was due
SupersededBeforeDue(j) ==
    /\ LeftBy(j.name, j.sess) \in {"start", "endnow"}
    /\ LeftAt(j.name, j.sess) < j.due

\* C2: a job whose session was ended by EndNow or replaced by a new Start before
\* the job's due time is neither waiting in the queue nor running: its callback
\* never runs, so it completes no session and sends no notification.
C2_SupersededTimerNeverRuns == \A j \in jobs : ~SupersededBeforeDue(j)

\* sessions ended by hand and replaced before their timers were due, and a later
\* timer that did complete a session
C2_Witness ==
    \E u \in Users :
        /\ \E k \in 1..Len(sessions[u]) :
              LeftBy(u, k) = "endnow" /\ sessions[u][k].end < sessions[u][k].start + Minutes(15)
        /\ \E k \in 1..Len(sessions[u]) : LeftBy(u, k) = "start"
        /\ \E k \in 1..Len(sessions[u]) : LeftBy(u, k) = "timer"
        /\ Live(u) = {}

\* ---------------------------------------------------------------------- C3
\* C3: a user never has two jobs waiting in the queue, and a Start leaves exactly
\* one waiting job for the user: the one scheduled for the new current session,
\* due at that session's end.
C3_OneLiveTimer ==
    /\ [](\A u \in Users : Cardinality(Live(u)) <= 1)
    /\ [][\A u \in Users :
            Starts(u) =>
                /\ Cardinality(get_jobs_by_name(jobs', job_name(u))) = 1
                /\ \A j \in get_jobs_by_name(jobs', job_name(u)) :
                      /\ j.sess = Current(u)'
                      /\ j \notin jobs
                      /\ j.due = sessions'[u][j.sess].end]_vars

\* a Start has replaced a waiting timer: the old session is in history, not
\* completed, and one job waits, for the new session
C3_Witness ==
    \E u \in Users :
        /\ Len(sessions[u]) >= 2
        /\ Current(u) = Len(sessions[u])
        /\ LeftBy(u, Len(sessions[u]) - 1) = "start"
        /\ \E j \in Live(u) : j.sess = Current(u)

\* ---------------------------------------------------------------------- C4
\* C4 as stated: every session becomes terminal through TimerFire or EndNow.
\* Both act on the current slot only, so a session that has left the slot must
\* already be terminal.
C4_EverySessionBecomesTerminal ==
    \A u \in Users : \A k \in 1..Len(sessions[u]) :
        Current(u) # k => sessions[u][k].completed

\* session k of user u exists and is terminal, or was replaced by a later Start
Settled(u, k) ==
    /\ k <= Len(sessions[u])
    /\ sessions[u][k].completed \/ LeftBy(u, k) = "start"

\* C4, amended: under fair firing of the scheduled timers every session created
\* by Start is eventually terminal unless a later Start of the same user
\* replaces it first; a terminal session was made so by TimerFire or by EndNow,
\* and a replaced one is never terminal.
C4_UnreplacedSessionBecomesTerminal ==
    /\ \A u \in Users : \A k \in 1..MaxShared :
          (k <= Len(sessions[u])) ~> Settled(u, k)
    /\ [](\A u \in Users : \A k \in 1..Len(sessions[u]) :
            sessions[u][k].completed <=> LeftBy(u, k) \in {"timer", "endnow"})

\* a session has run to its planned end and was completed by its own timer
C4_Witness ==
    \E u \in Users : \E k \in 1..Len(sessions[u]) :
        /\ LeftBy(u, k) = "timer"
        /\ sessions[u][k].completed
        /\ now >= sessions[u][k].end
        /\ \A j \in jobs : ~(j.name = job_name(u) /\ j.sess = k)

\* ---------------------------------------------------------------------- C5
\* C5 as stated: every session in a history is terminal.
C5_HistoryHoldsOnlyTerminal ==
    \A u \in Users : \A i \in 1..Len(History(u)) :
        sessions[u][History(u)[i]].completed

\* C5, amended: a session in history is terminal exactly when TimerFire or EndNow
\* put it there; one that a Start replaced stays in history with completed =
\* false.  The session in the current slot is never terminal and is not in history.
C5_HistoryTerminalUnlessReplaced ==
    \A u \in Users :
        /\ \A i \in 1..Len(History(u)) :
              /\ LeftBy(u, History(u)[i]) \in {"timer", "endnow", "start"}
              /\ sessions[u][History(u)[i]].completed
                    <=> LeftBy(u, History(u)[i]) \in {"timer", "endnow"}
              /\ History(u)[i] # Current(u)
        /\ Current(u) # None => ~sessions[u][Current(u)].completed

\* a history that holds a terminal session and a replaced one, beside a current one
C5_Witness ==
    \E u \in Users :
        /\ Current(u) # None
        /\ \E i \in 1..Len(History(u)) : sessions[u][History(u)[i]].completed
        /\ \E i \in 1..Len(History(u)) : ~sessions[u][History(u)[i]].completed

\* ---------------------------------------------------------------------- C6
\* C6: a user's history never holds more than 3 sessions.
C6_HistoryAtMostThree == \A u \in Users : Len(History(u)) <= 3

\* a fourth session has been pushed onto a full history
C6_Witness == \E u \in Users : Len(pushed[u]) >= 4 /\ Len(History(u)) = 3

\* ---------------------------------------------------------------------- C7
\* the number of sessions of u made terminal by TimerFire or EndNow
Completions(u) ==
    Cardinality({i \in 1..Len(pushed[u]) : pushed[u][i].by \in {"timer", "endnow"}})

\* C7 as stated: the history holds min(N, 3) entries, N the number of completions.
C7_HistoryCountsCompletions ==
    \A u \in Users : Len(History(u)) = Min(Completions(u), 3)

\* C7, amended: the history holds min(N, 3) entries, where N counts every session
\* that has left the current slot: the completions by TimerFire or EndNow and
\* the sessions replaced by a Start.
C7_HistoryCountsDepartures ==
    \A u \in Users :
        Len(History(u)) =
            Min(Cardinality({k \in 1..Len(sessions[u]) : LeftBy(u, k) # "none"}), 3)

\* four sessions have left the slot, one of them replaced, and three are kept
C7_Witness ==
    \E u \in Users :
        /\ Cardinality({k \in 1..Len(sessions[u]) : LeftBy(u, k) # "none"}) = 4
        /\ Completions(u) < 4
        /\ Len(History(u)) = 3

\* ---------------------------------------------------------------------- C8
\* C8: the history is the sequence of all sessions ever pushed, without its
\* oldest entries once more than 3 were pushed: same sessions, same order.
C8_HistoryIsFifoWindow ==
    \A u \in Users :
        LET h == History(u)
            k == Len(pushed[u])
        IN  /\ Len(h) = Min(k, 3)
            /\ \A i \in 1..Len(h) : h[i] = pushed[u][k - Len(h) + i].sess

\* the first session pushed has been evicted and the three newer ones remain
C8_Witness ==
    \E u \in Users :
        /\ Len(pushed[u]) = 4
        /\ History(u) = <<pushed[u][2].sess, pushed[u][3].sess, pushed[u][4].sess>>
        /\ \A i \in 1..3 : History(u)[i] # pushed[u][1].sess

\* ---------------------------------------------------------------------- C9
\* C9: in every session, current or not, duration is None exactly when end is None.
C9_DurationNoneIffEndNone ==
    \A u \in Users : \A k \in 1..Len(sessions[u]) :
        sessions[u][k].duration = None <=> sessions[u][k].end = None

\* a session ended by hand (its end rewritten) beside a newly started one
C9_Witness ==
    \E u \in Users :
        /\ Current(u) # None
        /\ \E k \in 1..Len(sessions[u]) :
              /\ LeftBy(u, k) = "endnow"
              /\ sessions[u][k].end # sessions[u][k].start + sessions[u][k].duration

\* --------------------------------------------------------------------- C10
\* C10: a Refresh changes neither the user's current session (the slot and every
\* field of every session), nor the user's history, nor any job.
C10_RefreshChangesNothing ==
    [][\A u \in Users :
         fast_refresh(u) =>
             /\ Current(u)' = Current(u)
             /\ History(u)' = History(u)
             /\ sessions' = sessions
             /\ jobs' = jobs]_vars

\* a Refresh can run on a current session whose planned end has passed while its
\* timer is still waiting, beside a history
C10_Witness ==
    /\ HandlerFree
    /\ \E u \in Users :
          /\ Current(u) # None
          /\ sessions[u][Current(u)].end < now
          /\ sessions[u][Current(u)].status_message_id # None
          /\ Live(u) # {}
          /\ History(u) # <<>>

\* --------------------------------------------------------------------- C11
\* C11: only the five tokens of the duration menu have a duration, and a Start
\* with any other token creates no session and changes neither the user's
\* current slot, nor the history, nor the waiting job, nor any session.
C11_UnknownTokenChangesNothing ==
    /\ [](\A data \in DurationTokens \cup StartTokens :
            duration_from_callback(data) = None <=> data \notin DurationTokens)
    /\ [][\A u \in Users : \A data \in StartTokens :
            unknown_duration(u, data) =>
                /\ Len(sessions'[u]) = Len(sessions[u])
                /\ Current(u)' = Current(u)
                /\ History(u)' = History(u)
                /\ Live(u)' = Live(u)
                /\ sessions' = sessions
                /\ jobs' = jobs]_vars

\* an unknown token can arrive while a fast is running with its timer waiting,
\* beside a history
C11_Witness ==
    /\ HandlerFree
    /\ \E data \in StartTokens : data \notin DurationTokens
    /\ \E u \in Users :
          /\ Current(u) # None
          /\ \E j \in Live(u) : j.sess = Current(u) /\ j.due > now
          /\ Len(History(u)) >= 2

\* --------------------------------------------------------------------- C12
\* C12: a Refresh, an EndNow or a timer callback that finds the user's current
\* slot empty leaves the slot empty and changes neither the user's history, nor
\* the job waiting for the user, nor any session; the callback sends no
\* completion notification.
C12_NoCurrentChangesNothing ==
    [][\A u \in Users :
         (/\ Current(u) = None
          /\ \/ fast_refresh(u)
             \/ end_now_idle(u)
             \/ \E j \in jobs : j.data.user_id = u /\ notify_no_current(j))
         => /\ Current(u)' = None
            /\ History(u)' = History(u)
            /\ Live(u)' = Live(u)
            /\ sessions' = sessions
            /\ notified' = notified]_vars

\* the timer of a session was started by the scheduler, the session was then
\* ended by hand, and the callback is about to run on an empty slot
C12_Witness ==
    /\ HandlerFree
    /\ \E j \in jobs :
          /\ j.st = "running"
          /\ Current(j.data.user_id) = None
          /\ LeftBy(j.data.user_id, j.sess) = "endnow"
          /\ History(j.data.user_id) # <<>>

\* --------------------------------------------------------------------- C13
\* C13: an EndNow on a current session leaves no job waiting for the user, puts
\* the session at the end of the history with completed = true, end = the time of
\* the EndNow and its start, duration and status message as they were, and
\* empties the slot; and as long as the slot is empty and no Start creates a
\* session for the user, no completion notification is sent to the user.
C13_EndNowEndsQuietly ==
    /\ [][\A u \in Users :
            fast_end_now(u) =>
                LET c == Current(u)
                IN  /\ sessions[u][c].duration # None
                    /\ Live(u)' = {}
                    /\ Current(u)' = None
                    /\ History(u)' # <<>>
                    /\ History(u)'[Len(History(u)')] = c
                    /\ sessions'[u][c] =
                          [sessions[u][c] EXCEPT !.completed = TRUE, !.end = now]
                    /\ notified' = notified]_vars
    /\ [](\A u \in Users :
            (Len(sessions[u]) > 0 /\ LeftBy(u, Len(sessions[u])) = "endnow")
                => Current(u) = None)
    /\ [][\A u \in Users :
            (Current(u) = None /\ ~Starts(u)) => notified'[u] = notified[u]]_vars

\* a session was ended by hand before its planned end; time has passed beyond
\* the planned end, no job of the user is left, and no notification was sent
\* about the session
C13_Witness ==
    \E u \in Users :
        LET k == Len(sessions[u])
        IN  /\ k > 0
            /\ LeftBy(u, k) = "endnow"
            /\ sessions[u][k].end < sessions[u][k].start + sessions[u][k].duration
            /\ now >= sessions[u][k].start + sessions[u][k].duration
            /\ \A j \in jobs : j.name # job_name(u)
            /\ \A i \in 1..Len(notified[u]) : notified[u][i].sess # k

\* --------------------------------------------------------------------- C14
\* C14: a Start made while a session is current puts that session at the end of
\* the history with every field as it was, completed = false among them, and
\* makes the session it creates the current one: right after the Start the
\* previous session is in the history and is not the current session.
C14_StartMovesCurrentToHistory ==
    [][\A u \in Users :
         (Starts(u) /\ Current(u) # None) =>
             LET c == Current(u)
             IN  /\ History(u)' # <<>>
                 /\ History(u)'[Len(History(u)')] = c
                 /\ sessions'[u][c] = sessions[u][c]
                 /\ ~sessions'[u][c].completed
                 /\ Current(u)' = Len(sessions'[u])
                 /\ Current(u)' # c
                 /\ \A i \in 1..Len(History(u)') : History(u)'[i] # Current(u)'
                 /\ \E data \in StartTokens :
                       /\ duration_from_callback(data) # None
                       /\ sessions'[u][Current(u)'] =
                             NewSession(now, duration_from_callback(data))]_vars

\* a session whose status message had been recorded was replaced by a Start on
\* top of a history of older entries; it is the newest entry, not completed,
\* and the new session is current with its status message not yet sent
C14_Witness ==
    \E u \in Users :
        /\ Current(u) = Len(sessions[u])
        /\ awaiting = {[user_id |-> u, session |-> Current(u)]}
        /\ Len(History(u)) >= 2
        /\ LET p == History(u)[Len(History(u))]
           IN  /\ p = Current(u) - 1
               /\ LeftBy(u, p) = "start"
               /\ ~sessions[u][p].completed
               /\ sessions[u][p].status_message_id # None

\* --------------------------------------------------------------------- C15
\* the number of completion notifications sent about session k of user u
Notifications(u, k) ==
    Cardinality({i \in 1..Len(notified[u]) : notified[u][i].sess = k})

\* the job scheduled with session k of user u has fired: it is neither waiting
\* in the queue nor about to run its callback
TimerGone(u, k) == \A j \in jobs : ~(j.name = job_name(u) /\ j.sess = k)

\* session k of user u was followed by no Start of u and ended by no EndNow
Undisturbed(u, k) == k = Len(sessions[u]) /\ LeftBy(u, k) # "endnow"

\* one notification was sent about session k, which is the newest entry of the
\* history, completed, and the slot is empty
CompletedOnce(u, k) ==
    /\ Notifications(u, k) = 1
    /\ sessions[u][k].completed
    /\ History(u) # <<>>
    /\ History(u)[Len(History(u))] = k
    /\ Current(u) = None

\* C15: after a Start that no EndNow and no further Start of the user follows,
\* the job scheduled by the Start eventually fires; and whenever it has fired,
\* exactly one completion notification has been sent about the session, the
\* session is in the history with completed = true, and the slot is empty.
C15_TimerCompletesOnce ==
    /\ \A u \in Users : \A k \in 1..MaxShared :
          (k <= Len(sessions[u])) ~>
              (\/ k < Len(sessions[u])
               \/ LeftBy(u, k) = "endnow"
               \/ TimerGone(u, k) /\ CompletedOnce(u, k))
    /\ [](\A u \in Users : \A k \in 1..Len(sessions[u]) :
            (Undisturbed(u, k) /\ TimerGone(u, k)) => CompletedOnce(u, k))

\* the timer of an undisturbed session has fired at the planned end of the
\* session, beside a history of older entries
C15_Witness ==
    \E u \in Users :
        LET k == Len(sessions[u])
        IN  /\ k >= 2
            /\ Undisturbed(u, k)
            /\ TimerGone(u, k)
            /\ now = sessions[u][k].end
            /\ notified[u] # <<>>
            /\ notified[u][Len(notified[u])] = [chat_id |-> ChatOf(u), sess |-> k]
            /\ Len(History(u)) >= 2

\* --------------------------------------------------------------------- C16
\* C16: once a session has been appended to a history, no step changes any of
\* its fields (start, end, duration, completed, status_message_id).
C16_HistorySessionsNeverChange ==
    [][\A u \in Users : \A k \in 1..Len(sessions[u]) :
         LeftBy(u, k) # "none" => sessions'[u][k] = sessions[u][k]]_vars

\* --------------------------------------------------------------------- C17
\* C17 as stated: every session that has a duration has end = start + duration.
C17_EndIsStartPlusDuration ==
    \A u \in Users : \A k \in 1..Len(sessions[u]) :
        sessions[u][k].duration # None =>
            sessions[u][k].end = sessions[u][k].start + sessions[u][k].duration

\* C17, amended: every session that has a duration and was not ended by EndNow,
\* current or in history, has end = start + duration; a session ended by EndNow
\* keeps its duration and has as end the time of the EndNow, which is not before
\* its start and not after the present.
C17_EndIsStartPlusDurationUnlessEndedNow ==
    \A u \in Users : \A k \in 1..Len(sessions[u]) :
        LET s == sessions[u][k]
        IN  /\ s.duration # None
            /\ s.duration \in {duration_from_callback(data) : data \in DurationTokens}
            /\ LeftBy(u, k) # "endnow" => s.end = s.start + s.duration
            /\ LeftBy(u, k) = "endnow" => s.start <= s.end /\ s.end <= now

\* a history that holds a session ended by hand before its planned end, one ended
\* by hand after it, and one completed by its timer
C17_Witness ==
    \E u \in Users :
        /\ \E i \in 1..Len(History(u)) :
              LET s == sessions[u][History(u)[i]]
              IN  LeftBy(u, History(u)[i]) = "endnow" /\ s.end < s.start + s.duration
        /\ \E i \in 1..Len(History(u)) :
              LET s == sessions[u][History(u)[i]]
              IN  LeftBy(u, History(u)[i]) = "endnow" /\ s.end > s.start + s.duration
        /\ \E i \in 1..Len(History(u)) :
              LET s == sessions[u][History(u)[i]]
              IN  LeftBy(u, History(u)[i]) = "timer" /\ s.end = s.start + s.duration

\* --------------------------------------------------------------------- C18
\* a step of a handler or of a job callback that runs for user u
ActsFor(u) ==
    \/ manage_fasts(u)
    \/ \E data \in StartTokens : unknown_duration(u, data) \/ handle_fast_duration(u, data)
    \/ fast_duration_sent /\ \E a \in awaiting : a.user_id = u
    \/ fast_refresh(u)
    \/ end_now_idle(u)
    \/ fast_end_now(u)
    \/ \E j \in jobs :
          /\ j.data.user_id = u
          /\ job_due(j) \/ notify_no_current(j) \/ notify_fast_end(j)

\* C18: a step taken for one user (a Start, Refresh or EndNow of the user, or the
\* firing of a job of the user) changes neither the current slot, nor the
\* history, nor the sessions, nor the waiting or running jobs, nor the
\* notifications of any other user.
C18_OtherUsersUntouched ==
    [][\A a \in Users :
         ActsFor(a) =>
             \A b \in Users \ {a} :
                 /\ Current(b)' = Current(b)
                 /\ History(b)' = History(b)
                 /\ sessions'[b] = sessions[b]
                 /\ Live(b)' = Live(b)
                 /\ {j \in jobs' : j.data.user_id = b} = {j \in jobs : j.data.user_id = b}
                 /\ notified'[b] = notified[b]]_vars

\* two users have a fast running at the same time, each with its own waiting job,
\* and one of them has a history
C18_Witness ==
    /\ HandlerFree
    /\ \A u \in Users :
          /\ Current(u) # None
          /\ \E j \in Live(u) : j.sess = Current(u) /\ j.data.user_id = u
    /\ \E u \in Users : History(u) # <<>>

\* --------------------------------------------------------------------- C19
\* no handler is suspended and no started callback is still to run
BetweenTransitions == HandlerFree /\ \A j \in jobs : j.st = "scheduled"

\* C19: in every state between transitions a user has a current session exactly
\* when a job is waiting for the user, and the session in the current slot has
\* completed = false.
C19_IdleOrActive ==
    BetweenTransitions =>
        \A u \in Users :
            /\ Current(u) # None <=> Live(u) # {}
            /\ Current(u) # None => ~sessions[u][Current(u)].completed

\* --------------------------------------------------------------------- C20
\* C20: whenever the timer callback completes a session and sends the completion
\* notification, the time elapsed since the start of that session is at least
\* its duration: the clock is at or after the planned end of the session.
C20_TimerNeverCompletesEarly ==
    [][\A j \in jobs :
         notify_fast_end(j) =>
             LET c == Current(j.data.user_id)
                 s == sessions[j.data.user_id][c]
             IN  now - s.start >= s.duration /\ now >= s.end]_vars

====
